---- MODULE Spec2Model ----
(***************************************************************************)
(* ds4drv - a DualShock 4 bluetooth driver (src/ds4drv.py).                *)
(*                                                                         *)
(* The state machines modelled:                                            *)
(*                                                                         *)
(*   Spec        the main thread: find_devices() (scan, name filter,       *)
(*               connect) feeding the loop of main() that sweeps the       *)
(*               thread list, reclaims joypads and starts a worker thread  *)
(*               per yielded device.  Workers appear here only through     *)
(*               Thread.is_alive().                                        *)
(*                                                                         *)
(*   SpecWorker  one worker thread: read_device() consuming                *)
(*               DS4Device.reports (read_report on the interrupt socket),  *)
(*               the LED battery-flash code and joypad.emit().             *)
(*                                                                         *)
(*   SpecStream  the same worker with the clock stopped.                   *)
(*                                                                         *)
(*   SpecFlash   the same worker over a session of several flashes.        *)
(*                                                                         *)
(*   SpecPair    the main thread together with its workers, the first of   *)
(*               them followed through read_device.                        *)
(*                                                                         *)
(*   SpecLive    the main thread when every scan yields a device, with     *)
(*               fairness.                                                 *)
(*                                                                         *)
(*   SpecCodec   DS4Device.read_report and DS4Device.control as functions  *)
(*               of the receive buffer and of the arguments.               *)
(***************************************************************************)
EXTENDS Integers, Sequences, FiniteSets, TLC

VARIABLES
    \* ---- main thread (find_devices / main) ----
    pyver,          \* major version of the interpreter running the script
    proc,           \* "running" | "exit1" (Daemon.exit) | "uncaught" (traceback)
    main_pc,        \* "scan": inside find_devices; "sweep": in the body of main's for
    ncontrollers,   \* len(options.controllers)
    joypads,        \* main(): list of (joypad, controller) pairs
    threads,        \* main(): list of Thread objects (their ids)
    thr,            \* attributes of every Thread created: dynamic, joypad, options
    alive,          \* set of threads for which is_alive() is true
    it,             \* index of the list iterator of "for thread in threads"
    ndevices,       \* number of DS4Device handles yielded (the last is the current)
    njoypads,       \* number of UInputDevice objects created
    sockets,        \* handles whose ctl_sock and int_sock are open
    \* history of the main thread, read by the properties only
    cycle,          \* outcome of the latest find_devices cycle
    deadAtSweep,    \* threads of the list that were not alive when the sweep began
    availAtSweep,   \* configured joypads in the queue or held by such a thread
    lastAssign,     \* the latest assignment made by main
    everBound,      \* joypad -> set of threads it was ever handed to
    \* ---- one worker thread (read_device) ----
    w_pc,           \* "start" | "loop" | "done" (returned) | "error" (exception)
    options,        \* the controller namespace given to read_device
    now,            \* the clock read by time()
    led_last_flash, \* read_device local
    led_flashing,   \* read_device local
    ctl_sent,       \* arguments of every control() call on the device, in order
    emitted,        \* reports passed to joypad.emit, in order
    \* history of the worker, read by the properties only
    recvd,          \* results of recv_into on the interrupt socket, in order
    stream,         \* reports yielded by DS4Device.reports, in order
    started_at,     \* clock value when read_device initialised the LED locals
    lastProc,       \* what processing the latest yielded report did
    nticks,         \* number of clock advances
    flashed_at,     \* clock values at which a flash command was sent
    \* ---- one handle's conversions (read_report / control) ----
    codec_pc,       \* "read_report" | "control" | "done" | "parked"
    self_buf,       \* DS4Device.buf as recv_into filled it
    decoded,        \* what read_report returned
    ctl_args,       \* the arguments of a control() call
    packet          \* the bytes control() hands to sendall

mainVars == <<pyver, proc, main_pc, ncontrollers, joypads, threads, thr, alive,
              it, ndevices, njoypads, sockets, cycle, deadAtSweep, availAtSweep,
              lastAssign, everBound>>

workerVars == <<w_pc, options, now, led_last_flash, led_flashing, ctl_sent,
                emitted, recvd, stream, started_at, lastProc, nticks, flashed_at>>

codecVars == <<codec_pc, self_buf, decoded, ctl_args, packet>>

vars == <<mainVars, workerVars, codecVars>>

(***************************************************************************)
(* Bounds of the model.                                                    *)
(***************************************************************************)
MaxControllers == 2     \* configured controllers (--next-controller groups)
MaxDevices == 5         \* handles yielded by find_devices
MaxScanLen == 2         \* records in one "hcitool scan" output
MaxRecv == 2            \* receives on one interrupt socket while the clock runs
MaxTicks == 3           \* clock advances during one session
MaxStream == 4          \* receives on one interrupt socket with the clock stopped
MaxPairDevices == 3     \* handles yielded while one worker is followed in detail
MaxPairRecv == 1        \* receives of the worker followed in detail
MaxPairTicks == 1       \* clock advances of the worker followed in detail
MaxFlashRecv == 4       \* reports of one session followed over several flashes
MaxFlashTicks == 4      \* clock advances of such a session
MaxLiveDevices == 4     \* handles yielded when discovery keeps yielding

(***************************************************************************)
(* Sequence helpers.                                                       *)
(***************************************************************************)
\* RemoveAt that leaves the list as it is
RemoveAt_Nothing(s, i) == s

RemoveAt(s, i) == [j \in 1..(Len(s) - 1) |-> IF j < i THEN s[j] ELSE s[j + 1]]

Range(s) == {s[i] : i \in DOMAIN s}

\* all sequences over S of length <= n
SeqsUpTo(S, n) == UNION {[1..k -> S] : k \in 0..n}

(***************************************************************************)
(* The wire formats: DS4Device.control builds the output packet,           *)
(* DS4Device.read_report decodes the input report held in self.buf.        *)
(* Python's &, |, << and >> on the non-negative integers of a bytearray.   *)
(***************************************************************************)
RECURSIVE BitAnd(_, _)
BitAnd(a, b) ==
    IF a = 0 \/ b = 0 THEN 0
    ELSE (a % 2) * (b % 2) + 2 * BitAnd(a \div 2, b \div 2)

RECURSIVE BitOr(_, _)
BitOr(a, b) ==
    IF a = 0 THEN b
    ELSE IF b = 0 THEN a
    ELSE (IF a % 2 = 1 \/ b % 2 = 1 THEN 1 ELSE 0) + 2 * BitOr(a \div 2, b \div 2)

RECURSIVE Pow2(_)
Pow2(k) == IF k = 0 THEN 1 ELSE 2 * Pow2(k - 1)

ShiftLeft(a, k) == a * Pow2(k)

ShiftRight(a, k) == a \div Pow2(k)

HIDP_TRANS_SET_REPORT == 80
HIDP_DATA_RTYPE_OUTPUT == 2
PACKET_SIZE == 78

\* bytearray(78) with the assignments of control(), offsets from 0
Payload(a) ==
    [i \in 0..(PACKET_SIZE - 1) |->
        CASE i = 0 -> 17
          [] i = 1 -> 128
          [] i = 3 -> 255
          [] i = 6 -> a.big_rumble
          [] i = 7 -> a.small_rumble
          [] i = 8 -> a.led_red
          [] i = 9 -> a.led_green
          [] i = 10 -> a.led_blue
          [] i = 11 -> a.flash_led1
          [] i = 12 -> a.flash_led2
          [] OTHER -> 0]

\* Packet with the rumble bytes written at offsets 4 and 5
Packet_RumbleMoved(a) ==
    <<BitOr(HIDP_TRANS_SET_REPORT, HIDP_DATA_RTYPE_OUTPUT)>>
        \o [i \in 1..PACKET_SIZE |->
                IF i - 1 = 4 THEN a.big_rumble
                ELSE IF i - 1 = 5 THEN a.small_rumble
                ELSE IF i - 1 \in {6, 7} THEN 0
                ELSE Payload(a)[i - 1]]

\* bytes(hid + pkt): what control() hands to ctl_sock.sendall, as a sequence
Packet(a) ==
    <<BitOr(HIDP_TRANS_SET_REPORT, HIDP_DATA_RTYPE_OUTPUT)>>
        \o [i \in 1..PACKET_SIZE |-> Payload(a)[i - 1]]

\* S16LE.unpack with "<H" (unsigned) in place of "<h"
S16LE_Unsigned(b0, b1) == b0 + 256 * b1

\* S16LE.unpack of the two bytes b0, b1: little-endian, two's complement
S16LE(b0, b1) ==
    LET u == b0 + 256 * b1
    IN IF u >= 32768 THEN u - 65536 ELSE u

\* the DS4Report that read_report builds from a full buffer
DS4Report(buf) ==
    [left_analog_x |-> buf[4], left_analog_y |-> buf[5],
     right_analog_x |-> buf[6], right_analog_y |-> buf[7],
     l2_analog |-> buf[11], r2_analog |-> buf[12],
     dpad_up |-> buf[8] \in {0, 1, 7},
     dpad_down |-> buf[8] \in {3, 4, 5},
     dpad_left |-> buf[8] \in {5, 6, 7},
     dpad_right |-> buf[8] \in {1, 2, 3},
     button_cross |-> BitAnd(buf[8], 32) # 0,
     button_circle |-> BitAnd(buf[8], 64) # 0,
     button_square |-> BitAnd(buf[8], 16) # 0,
     button_triangle |-> BitAnd(buf[8], 128) # 0,
     button_l1 |-> BitAnd(buf[9], 1) # 0,
     button_l2 |-> BitAnd(buf[9], 4) # 0,
     button_l3 |-> BitAnd(buf[9], 64) # 0,
     button_r1 |-> BitAnd(buf[9], 2) # 0,
     button_r2 |-> BitAnd(buf[9], 8) # 0,
     button_r3 |-> BitAnd(buf[9], 128) # 0,
     button_share |-> BitAnd(buf[9], 16) # 0,
     button_options |-> BitAnd(buf[9], 32) # 0,
     button_trackpad |-> BitAnd(buf[10], 2) # 0,
     button_ps |-> BitAnd(buf[10], 1) # 0,
     motion_y |-> S16LE(buf[16], buf[17]),
     motion_x |-> S16LE(buf[18], buf[19]),
     motion_z |-> S16LE(buf[20], buf[21]),
     orientation_roll |-> -(S16LE(buf[22], buf[23])),
     orientation_yaw |-> S16LE(buf[24], buf[25]),
     orientation_pitch |-> S16LE(buf[26], buf[27]),
     trackpad_touch0_id |-> BitAnd(buf[38], 127),
     trackpad_touch0_active |-> ShiftRight(buf[38], 7) = 0,
     trackpad_touch0_x |-> BitOr(ShiftLeft(BitAnd(buf[40], 15), 8), buf[39]),
     trackpad_touch0_y |-> BitOr(ShiftLeft(buf[41], 4), ShiftRight(BitAnd(buf[40], 240), 4)),
     trackpad_touch1_id |-> BitAnd(buf[42], 127),
     trackpad_touch1_active |-> ShiftRight(buf[42], 7) = 0,
     trackpad_touch1_x |-> BitOr(ShiftLeft(BitAnd(buf[44], 15), 8), buf[43]),
     trackpad_touch1_y |-> BitOr(ShiftLeft(buf[45], 4), ShiftRight(BitAnd(buf[44], 240), 4)),
     timestamp |-> ShiftRight(buf[10], 2),
     battery |-> buf[33] % 16,
     charging |-> BitAnd(buf[33], 16) # 0]

(***************************************************************************)
(* The two conversions applied to inputs drawn from bounded sets: a full   *)
(* 79-byte buffer that differs from bytearray(79) in the bytes of one      *)
(* group of fields, or the seven arguments of one control() call.          *)
(***************************************************************************)
Bytes == 0..255

\* byte values at the edges of the masks and shifts of read_report
EdgeBytes == {0, 1, 15, 16, 127, 128, 240, 255}

\* argument values of control(): the defaults, the program's 30, the limits
ArgBytes == {0, 30, 255}

\* self.buf = bytearray(79)
ZeroBuf == [i \in 0..78 |-> 0]

\* offsets of the low bytes of the six S16LE fields
S16Offsets == {16, 18, 20, 22, 24, 26}

\* offsets of the first byte of the two touch records
TouchOffsets == {38, 42}

Buffers ==
    {[ZeroBuf EXCEPT ![k] = b] : k \in {8, 9, 10, 33}, b \in Bytes}
    \cup {[ZeroBuf EXCEPT ![k] = b0, ![k + 1] = b1] :
            k \in S16Offsets, b0 \in EdgeBytes, b1 \in EdgeBytes}
    \cup {[ZeroBuf EXCEPT ![k] = b0, ![k + 1] = b1, ![k + 2] = b2, ![k + 3] = b3] :
            k \in TouchOffsets, b0 \in EdgeBytes, b1 \in EdgeBytes,
            b2 \in EdgeBytes, b3 \in EdgeBytes}

ControlArgs ==
    [big_rumble : ArgBytes, small_rumble : ArgBytes,
     led_red : ArgBytes, led_green : ArgBytes, led_blue : ArgBytes,
     flash_led1 : ArgBytes, flash_led2 : ArgBytes]

NoArgs ==
    [big_rumble |-> 0, small_rumble |-> 0, led_red |-> 0, led_green |-> 0,
     led_blue |-> 0, flash_led1 |-> 0, flash_led2 |-> 0]

CodecParked ==
    /\ codec_pc = "parked"
    /\ self_buf = ZeroBuf
    /\ decoded = [kind |-> "None"]
    /\ ctl_args = NoArgs
    /\ packet = <<>>

(***************************************************************************)
(* bluetooth_scan / find_device / DS4Device.connect                        *)
(***************************************************************************)
Names == {"Wireless Controller", "Other"}
Addrs == {"00:1"}

\* name == "Wireless Controller", where name is a field of a line of
\* check_output(...) split on b"\t": a str under Python 2, a bytes object
\* under Python 3, which never equals a str.
NameMatches(name) == pyver = 2 /\ name = "Wireless Controller"

\* find_device: the first scanned record whose name matches, 0 if none
RECURSIVE FirstMatch(_, _)
FirstMatch(devices, i) ==
    IF i > Len(devices) THEN 0
    ELSE IF NameMatches(devices[i][2]) THEN i
    ELSE FirstMatch(devices, i + 1)

\* DS4Device.connect: ctl_socket.connect, int_socket.connect, then
\* __init__'s control(led white) -> ctl_sock.sendall; each may raise socket.error
ConnectOutcomes == {"ok", "ctl_connect_error", "int_connect_error", "ctl_send_error"}

\* What bluetooth_scan does: raise CalledProcessError (hcitool exited non-zero),
\* raise OSError (no hcitool executable) or return the list of records.
ScanRaises == {"CalledProcessError", "OSError"}

\* socket.error is IOError under Python 2 (not an OSError) and OSError under
\* Python 3: "except OSError" of find_devices catches it only under Python 3.
CaughtAsOSError(exc) ==
    \/ exc = "OSError"
    \/ exc = "socket.error" /\ pyver = 3

(***************************************************************************)
(* find_devices: one cycle of its while loop, up to the yield.             *)
(***************************************************************************)
MainIdle ==
    UNCHANGED <<ncontrollers, joypads, threads, thr, alive, it, ndevices,
                njoypads, sockets, deadAtSweep, availAtSweep, lastAssign, everBound>>

\* Daemon.exit: log, then sys.exit(1)
DaemonExit(outcome) ==
    /\ proc' = "exit1"
    /\ cycle' = outcome
    /\ UNCHANGED main_pc
    /\ MainIdle

\* an exception no handler of find_devices or main catches
Uncaught(outcome) ==
    /\ proc' = "uncaught"
    /\ cycle' = outcome
    /\ UNCHANGED main_pc
    /\ MainIdle

\* configured joypads that main could hand out at the start of a sweep
Available ==
    {p.joypad : p \in Range(joypads)}
        \cup {thr[t].joypad : t \in {u \in Range(threads) : u \notin alive /\ ~thr[u].dynamic}}

(***************************************************************************)
(* The sockets of a handle.  No line of the program closes ctl_sock or     *)
(* int_sock: they are closed when the interpreter frees the DS4Device that *)
(* holds them, which reference counting does at the moment the last        *)
(* reference goes.  A handle is referred to by the "device" variable of    *)
(* main's for loop while it is the latest one yielded, and by the thread   *)
(* that runs read_device on it (Thread.run drops its arguments when the    *)
(* target has returned or raised).                                         *)
(***************************************************************************)
\* of the handles in open, those still referred to: the one in main's
\* "device" or the ones held by the threads in running
StillOpen(open, running) == {d \in open : d \in running}

\* "yield device": control passes to the body of main's for loop, whose
\* "device" variable is rebound to the new handle
YieldDevice ==
    /\ cycle' = "connected"
    /\ ndevices' = ndevices + 1
    /\ sockets' = StillOpen(sockets, alive) \cup {ndevices + 1}
    /\ main_pc' = "sweep"
    /\ it' = 0
    /\ deadAtSweep' = {t \in Range(threads) : t \notin alive}
    /\ availAtSweep' = Available
    /\ UNCHANGED <<proc, ncontrollers, joypads, threads, thr, alive, njoypads,
                   lastAssign, everBound>>

NoDevice(outcome) ==
    /\ cycle' = outcome
    /\ UNCHANGED <<proc, main_pc>>
    /\ MainIdle

Raise(exc, outcome) ==
    IF exc = "CalledProcessError" \/ CaughtAsOSError(exc)
    THEN DaemonExit(outcome)
    ELSE Uncaught(outcome)

FindDevicesCycle ==
    /\ proc = "running"
    /\ main_pc = "scan"
    /\ UNCHANGED pyver
    /\ \/ \E exc \in ScanRaises :
            Raise(exc, IF exc = "OSError" THEN "provider_missing" ELSE "provider_error")
       \/ \E devices \in SeqsUpTo(Addrs \X Names, MaxScanLen) :
            LET m == FirstMatch(devices, 1) IN
            IF m = 0
            THEN NoDevice(IF devices = <<>> THEN "empty_scan" ELSE "no_match")
            ELSE \E c \in ConnectOutcomes :
                    IF c = "ok"
                    THEN ndevices < MaxDevices /\ YieldDevice
                    ELSE Raise("socket.error", "connect_failed")
    /\ UNCHANGED <<workerVars, codecVars>>

(***************************************************************************)
(* main: the sweep over threads, one iteration of "for thread in threads". *)
(* The list iterator keeps an index; threads.remove() during the iteration *)
(* shifts the later elements down while the index still advances.          *)
(***************************************************************************)
\* Reclaim without the test of thread.dynamic
Reclaim_Always(t, q) ==
    <<[joypad |-> thr[t].joypad, options |-> thr[t].options]>> \o q

Reclaim(t, q) ==
    IF thr[t].dynamic THEN q
    ELSE <<[joypad |-> thr[t].joypad, options |-> thr[t].options]>> \o q

SweepStep ==
    /\ proc = "running"
    /\ main_pc = "sweep"
    /\ it < Len(threads)
    /\ LET t == threads[it + 1] IN
        IF t \notin alive
        THEN /\ joypads' = Reclaim(t, joypads)
             /\ threads' = RemoveAt(threads, it + 1)
        ELSE UNCHANGED <<joypads, threads>>
    /\ it' = it + 1
    /\ UNCHANGED <<pyver, proc, main_pc, ncontrollers, thr, alive, ndevices,
                   njoypads, sockets, cycle, deadAtSweep, availAtSweep, lastAssign, everBound>>
    /\ UNCHANGED <<workerVars, codecVars>>

(***************************************************************************)
(* main: after the sweep, pick or create the joypad and start the thread.  *)
(***************************************************************************)
\* options 0 is ControllerAction.default_controller(), k > 0 is options.controllers[k]

\* NextJoypad with joypads[0] in place of joypads.pop(0)
NextJoypad_Peek(queue, created) ==
    IF queue = <<>>
    THEN [dynamic |-> TRUE, joypad |-> created + 1, options |-> 0, rest |-> queue]
    ELSE [dynamic |-> FALSE, joypad |-> Head(queue).joypad,
          options |-> Head(queue).options, rest |-> queue]

\* NextJoypad with joypads.pop() in place of joypads.pop(0)
NextJoypad_PopLast(queue, created) ==
    IF queue = <<>>
    THEN [dynamic |-> TRUE, joypad |-> created + 1, options |-> 0, rest |-> queue]
    ELSE [dynamic |-> FALSE, joypad |-> queue[Len(queue)].joypad,
          options |-> queue[Len(queue)].options,
          rest |-> SubSeq(queue, 1, Len(queue) - 1)]

\* "if not joypads: ... else: joypad, controller = joypads.pop(0)" on the
\* queue, created being the number of UInputDevice objects made so far
NextJoypad(queue, created) ==
    IF queue = <<>>
    THEN [dynamic |-> TRUE, joypad |-> created + 1, options |-> 0, rest |-> queue]
    ELSE [dynamic |-> FALSE, joypad |-> Head(queue).joypad,
          options |-> Head(queue).options, rest |-> Tail(queue)]

Assign ==
    /\ proc = "running"
    /\ main_pc = "sweep"
    /\ it >= Len(threads)
    /\ LET pick == NextJoypad(joypads, njoypads)
           dynamic == pick.dynamic
           joypad == pick.joypad
           opts == pick.options
           t == ndevices
       IN /\ njoypads' = IF dynamic THEN njoypads + 1 ELSE njoypads
          /\ joypads' = pick.rest
          /\ thr' = [u \in DOMAIN thr \cup {t} |->
                        IF u = t
                        THEN [dynamic |-> dynamic, joypad |-> joypad, options |-> opts]
                        ELSE thr[u]]
          /\ alive' = alive \cup {t}
          /\ threads' = Append(threads, t)
          /\ lastAssign' = [thread |-> t, dynamic |-> dynamic, joypad |-> joypad,
                            pending |-> Len(joypads)]
          /\ everBound' = [j \in DOMAIN everBound \cup {joypad} |->
                            IF j = joypad
                            THEN (IF j \in DOMAIN everBound THEN everBound[j] ELSE {}) \cup {t}
                            ELSE everBound[j]]
    /\ main_pc' = "scan"
    /\ UNCHANGED <<pyver, proc, ncontrollers, it, ndevices, sockets, cycle,
                   deadAtSweep, availAtSweep>>
    /\ UNCHANGED <<workerVars, codecVars>>

(***************************************************************************)
(* A worker thread ends: read_device returned or raised.                   *)
(***************************************************************************)
\* ThreadEnds with the exception of the worker raised in the main thread
ThreadEnds_StopsProcess ==
    /\ proc = "running"
    /\ \E t \in alive :
        /\ alive' = alive \ {t}
        /\ sockets' = StillOpen(sockets, alive' \cup {ndevices})
    /\ proc' = "uncaught"
    /\ UNCHANGED <<pyver, main_pc, ncontrollers, joypads, threads, thr, it,
                   ndevices, njoypads, cycle, deadAtSweep, availAtSweep,
                   lastAssign, everBound>>
    /\ UNCHANGED <<workerVars, codecVars>>

ThreadEnds ==
    /\ proc = "running"
    /\ \E t \in alive :
        /\ alive' = alive \ {t}
        /\ sockets' = StillOpen(sockets, alive' \cup {ndevices})
    /\ UNCHANGED <<pyver, proc, main_pc, ncontrollers, joypads, threads, thr, it,
                   ndevices, njoypads, cycle, deadAtSweep, availAtSweep,
                   lastAssign, everBound>>
    /\ UNCHANGED <<workerVars, codecVars>>

(***************************************************************************)
(* State after main() has created the configured joypads.                  *)
(***************************************************************************)
WorkerParked ==
    /\ w_pc = "done"
    /\ options = [battery_flash |-> FALSE, led |-> <<0, 0, 255>>]
    /\ now = 0
    /\ led_last_flash = 0
    /\ led_flashing = FALSE
    /\ ctl_sent = <<>>
    /\ emitted = <<>>
    /\ recvd = <<>>
    /\ stream = <<>>
    /\ started_at = 0
    /\ flashed_at = <<>>
    /\ lastProc = [valid |-> FALSE]
    /\ nticks = 0

Init ==
    /\ pyver \in {2, 3}
    /\ proc = "running"
    /\ main_pc = "scan"
    /\ ncontrollers \in 1..MaxControllers
    /\ joypads = [k \in 1..ncontrollers |-> [joypad |-> k, options |-> k]]
    /\ threads = <<>>
    /\ thr = <<>>
    /\ alive = {}
    /\ it = 0
    /\ ndevices = 0
    /\ njoypads = ncontrollers
    /\ sockets = {}
    /\ cycle = "none"
    /\ deadAtSweep = {}
    /\ availAtSweep = {}
    /\ lastAssign = [thread |-> 0, dynamic |-> FALSE, joypad |-> 0, pending |-> 0]
    /\ everBound = <<>>
    /\ WorkerParked
    /\ CodecParked

Next ==
    \/ FindDevicesCycle
    \/ SweepStep
    \/ Assign
    \/ ThreadEnds

Spec == Init /\ [][Next]_vars

(***************************************************************************)
(* The main thread when discovery keeps yielding: every scan finds a       *)
(* controller and connects to it, find_devices comes back with it, and the *)
(* body of main's for loop, once entered, runs to its end.                 *)
(***************************************************************************)
Yields ==
    FindDevicesCycle /\ cycle' = "connected" /\ ndevices' <= MaxLiveDevices

NextLive ==
    \/ Yields
    \/ SweepStep
    \/ Assign
    \/ ThreadEnds

SpecLive ==
    /\ Init
    /\ [][NextLive]_vars
    /\ WF_vars(Yields)
    /\ WF_vars(SweepStep)
    /\ WF_vars(Assign)

(***************************************************************************)
(* DS4Device.control: the arguments of one call, which builds the packet   *)
(* and hands it to ctl_sock.sendall.  Rumble is never passed by this       *)
(* program and keeps its default 0.                                        *)
(***************************************************************************)
control(led_red, led_green, led_blue, flash_led1, flash_led2) ==
    [big_rumble |-> 0, small_rumble |-> 0,
     led_red |-> led_red, led_green |-> led_green, led_blue |-> led_blue,
     flash_led1 |-> flash_led1, flash_led2 |-> flash_led2]

\* DS4Device.__init__: self.control(led_red=255, led_green=255, led_blue=255)
White == control(255, 255, 255, 0, 0)

\* read_device: control(led_red=options.led[0], led_green=..., led_blue=...)
ProfileColour(opts) == control(opts.led[1], opts.led[2], opts.led[3], 0, 0)

\* read_device: the same with flash_led1=30, flash_led2=30
FLASH_LED == 30
FlashOn(opts) == control(opts.led[1], opts.led[2], opts.led[3], FLASH_LED, FLASH_LED)

\* read_device: control(flash_led1=0, flash_led2=0)
FlashOff == control(0, 0, 0, 0, 0)

(***************************************************************************)
(* DS4Device.read_report on the result of int_sock.recv_into(self.buf):    *)
(* ret bytes were received, b33 is byte 33 of the buffer.                  *)
(***************************************************************************)
REPORT_SIZE == 79

\* read_report with the disconnection test widened to every short receive
read_report_ShortEnds(ret, b33) ==
    IF ret < REPORT_SIZE THEN [kind |-> "None"]
    ELSE [kind |-> "DS4Report",
          battery |-> b33 % 16,
          charging |-> ((b33 \div 16) % 2) # 0]

read_report(ret, b33) ==
    IF ret = 0 THEN [kind |-> "None"]
    ELSE IF ret < REPORT_SIZE THEN [kind |-> "False"]
    ELSE [kind |-> "DS4Report",
          battery |-> b33 % 16,
          charging |-> ((b33 \div 16) % 2) # 0]

\* truth value of what read_report returned ("if report:" in reports):
\* False is false, a DS4Report (a non-empty tuple) is true
Truthy(r) == r.kind = "DS4Report"

\* the DS4Report as the consumer sees it
ReportOf(r) == [battery |-> r.battery, charging |-> r.charging]

(***************************************************************************)
(* read_device: the battery-flash code run on one report at clock value t  *)
(* with the locals led_flashing = flashing and led_last_flash = last.      *)
(* Gives the control() calls in order and the new values of the locals.    *)
(* The time() reads of one report are microseconds apart: one value t.     *)
(***************************************************************************)
LOW_BATTERY == 2
FLASH_PERIOD == 60
FLASH_TIME == 5

\* StartsFlash without the tests of the battery level and of led_flashing
StartsFlash_NoBatteryCheck(report, opts, flashing, last, t) ==
    /\ opts.battery_flash
    /\ (t - last) > FLASH_PERIOD

\* StartsFlash with the flash time in place of the flash period
StartsFlash_Sooner(report, opts, flashing, last, t) ==
    /\ opts.battery_flash
    /\ report.battery < LOW_BATTERY /\ ~report.charging
    /\ ~flashing /\ (t - last) > FLASH_TIME

StartsFlash(report, opts, flashing, last, t) ==
    /\ opts.battery_flash
    /\ report.battery < LOW_BATTERY /\ ~report.charging
    /\ ~flashing /\ (t - last) > FLASH_PERIOD

\* StopsFlash without the test of led_flashing
StopsFlash_AnyState(opts, flashing, last, t) ==
    /\ opts.battery_flash
    /\ (t - last) > FLASH_TIME

\* StopsFlash with >= in place of >
StopsFlash_AtLeast(opts, flashing, last, t) ==
    /\ opts.battery_flash
    /\ flashing /\ (t - last) >= FLASH_TIME

\* StopsFlash outside the test of options.battery_flash
StopsFlash_IgnoresOption(opts, flashing, last, t) ==
    flashing /\ (t - last) > FLASH_TIME

StopsFlash(opts, flashing, last, t) ==
    /\ opts.battery_flash
    /\ flashing /\ (t - last) > FLASH_TIME

\* LedPolicy without "led_last_flash = time()" when the flash starts
LedPolicy_NoFlashStamp(report, opts, flashing, last, t) ==
    LET start == StartsFlash(report, opts, flashing, last, t)
        flashing1 == IF start THEN TRUE ELSE flashing
        stop == StopsFlash(opts, flashing1, last, t)
    IN [cmds |-> (IF start THEN <<FlashOn(opts)>> ELSE <<>>)
                    \o (IF stop THEN <<FlashOff, ProfileColour(opts)>> ELSE <<>>),
        flashing |-> IF stop THEN FALSE ELSE flashing1,
        last |-> last]

LedPolicy(report, opts, flashing, last, t) ==
    LET start == StartsFlash(report, opts, flashing, last, t)
        flashing1 == IF start THEN TRUE ELSE flashing
        last1 == IF start THEN t ELSE last
        stop == StopsFlash(opts, flashing1, last1, t)
    IN [cmds |-> (IF start THEN <<FlashOn(opts)>> ELSE <<>>)
                    \o (IF stop THEN <<FlashOff, ProfileColour(opts)>> ELSE <<>>),
        flashing |-> IF stop THEN FALSE ELSE flashing1,
        last |-> last1]

(***************************************************************************)
(* read_device, up to the for loop: set the profile colour, initialise the *)
(* LED locals.  sendall may raise, which ends the thread.                  *)
(***************************************************************************)
\* WorkerStart without the control() call that sets the profile colour
WorkerStart_NoColour ==
    /\ w_pc = "start"
    /\ w_pc' = "loop"
    /\ led_last_flash' = now
    /\ led_flashing' = TRUE
    /\ started_at' = now
    /\ UNCHANGED <<ctl_sent, options, now, emitted, recvd, stream, lastProc, nticks, flashed_at>>
    /\ UNCHANGED <<mainVars, codecVars>>

WorkerStart ==
    /\ w_pc = "start"
    /\ ctl_sent' = Append(ctl_sent, ProfileColour(options))
    /\ \E raised \in BOOLEAN :
        IF raised
        THEN /\ w_pc' = "error"
             /\ UNCHANGED <<led_last_flash, led_flashing, started_at>>
        ELSE /\ w_pc' = "loop"
             /\ led_last_flash' = now
             /\ led_flashing' = TRUE
             /\ started_at' = now
    /\ UNCHANGED <<options, now, emitted, recvd, stream, lastProc, nticks, flashed_at>>
    /\ UNCHANGED <<mainVars, codecVars>>

(***************************************************************************)
(* One iteration of DS4Device.reports together with the body of the for    *)
(* loop of read_device that runs on what it yields.                        *)
(***************************************************************************)
RecvSizes == {0, 1, REPORT_SIZE - 1, REPORT_SIZE}

\* byte 33 of a full report: battery in the low nibble, charging in bit 4
Byte33Values == {1, 2, 17, 31}

\* recv_into raises socket.error
RecvRaises ==
    /\ w_pc' = "error"
    /\ UNCHANGED <<options, now, led_last_flash, led_flashing, ctl_sent, emitted,
                   recvd, stream, started_at, lastProc, nticks, flashed_at>>

\* zero bytes: read_report returns None, reports breaks, read_device returns
EndOfStream(ret) ==
    /\ recvd' = Append(recvd, [ret |-> ret, b33 |-> 0])
    /\ w_pc' = "done"
    /\ UNCHANGED <<options, now, led_last_flash, led_flashing, ctl_sent, emitted,
                   stream, started_at, lastProc, nticks, flashed_at>>

\* a short report: Daemon.warn, next iteration
Ignored(ret) ==
    /\ recvd' = Append(recvd, [ret |-> ret, b33 |-> 0])
    /\ UNCHANGED <<w_pc, options, now, led_last_flash, led_flashing, ctl_sent,
                   emitted, stream, started_at, lastProc, nticks, flashed_at>>

\* a report is yielded: the LED code, then joypad.emit(report).  Of the
\* control() calls nfail = 0 means none raised; otherwise call nfail raised,
\* the exception ends the thread and nothing after that call runs.
Process(ret, b33, nfail) ==
    LET report == ReportOf(read_report(ret, b33))
        p == LedPolicy(report, options, led_flashing, led_last_flash, now)
        called == IF nfail = 0 THEN p.cmds ELSE SubSeq(p.cmds, 1, nfail)
    IN /\ nfail <= Len(p.cmds)
       /\ recvd' = Append(recvd, [ret |-> ret, b33 |-> b33])
       /\ stream' = Append(stream, report)
       /\ ctl_sent' = ctl_sent \o called
       /\ lastProc' = [valid |-> TRUE, report |-> report, t |-> now,
                       flashing |-> led_flashing, last |-> led_last_flash,
                       cmds |-> called, raised |-> nfail # 0]
       /\ IF nfail = 0
          THEN /\ led_flashing' = p.flashing
               /\ led_last_flash' = p.last
               /\ emitted' = Append(emitted, report)
               /\ UNCHANGED w_pc
          ELSE /\ w_pc' = "error"
               /\ UNCHANGED <<led_flashing, led_last_flash, emitted>>
       /\ flashed_at' = IF \E i \in DOMAIN called : called[i].flash_led1 # 0
                        THEN Append(flashed_at, now)
                        ELSE flashed_at
       /\ UNCHANGED <<options, now, started_at, nticks>>

Reports(maxrecv) ==
    /\ w_pc = "loop"
    /\ Len(recvd) < maxrecv
    /\ \/ RecvRaises
       \/ \E ret \in RecvSizes :
            LET r == read_report(ret, 0) IN
            IF r.kind = "None" THEN EndOfStream(ret)
            ELSE IF ~Truthy(r) THEN Ignored(ret)
            ELSE \E b33 \in Byte33Values, nfail \in 0..2 : Process(ret, b33, nfail)
    /\ UNCHANGED <<mainVars, codecVars>>

(***************************************************************************)
(* The clock advances.                                                     *)
(***************************************************************************)
TickSteps == {1, FLASH_TIME, FLASH_PERIOD}

Tick ==
    /\ w_pc \in {"start", "loop"}
    /\ nticks < MaxTicks
    /\ nticks' = nticks + 1
    /\ \E d \in TickSteps : now' = now + d
    /\ UNCHANGED <<w_pc, options, led_last_flash, led_flashing, ctl_sent, emitted,
                   recvd, stream, started_at, lastProc, flashed_at>>
    /\ UNCHANGED <<mainVars, codecVars>>

(***************************************************************************)
(* A worker: the state when main has started the thread on a device that   *)
(* DS4Device.connect has just returned.                                    *)
(***************************************************************************)
Colours == {<<0, 0, 255>>, <<255, 0, 16>>}

Profiles == [battery_flash : BOOLEAN, led : Colours]

MainParked ==
    /\ pyver = 2
    /\ proc = "running"
    /\ main_pc = "scan"
    /\ ncontrollers = 1
    /\ joypads = <<>>
    /\ threads = <<1>>
    /\ thr = <<[dynamic |-> FALSE, joypad |-> 1, options |-> 1]>>
    /\ alive = {1}
    /\ it = 0
    /\ ndevices = 1
    /\ njoypads = 1
    /\ sockets = {1}
    /\ cycle = "connected"
    /\ deadAtSweep = {}
    /\ availAtSweep = {1}
    /\ lastAssign = [thread |-> 1, dynamic |-> FALSE, joypad |-> 1, pending |-> 1]
    /\ everBound = <<{1}>>

InitWorker ==
    /\ MainParked
    /\ CodecParked
    /\ w_pc = "start"
    /\ options \in Profiles
    /\ now = 0
    /\ led_last_flash = 0
    /\ led_flashing = FALSE
    /\ ctl_sent = <<White>>
    /\ emitted = <<>>
    /\ recvd = <<>>
    /\ stream = <<>>
    /\ started_at = 0
    /\ flashed_at = <<>>
    /\ lastProc = [valid |-> FALSE]
    /\ nticks = 0

ReportsStep == Reports(MaxRecv)

NextWorker ==
    \/ WorkerStart
    \/ ReportsStep
    \/ Tick

SpecWorker == InitWorker /\ [][NextWorker]_vars

(***************************************************************************)
(* The same worker with the clock stopped, for longer report streams.      *)
(***************************************************************************)
StreamStep == Reports(MaxStream)

NextStream ==
    \/ WorkerStart
    \/ StreamStep

SpecStream == InitWorker /\ [][NextStream]_vars

(***************************************************************************)
(* The same worker over a session long enough for the LED to flash more    *)
(* than once: every receive is a full report that is processed to the end, *)
(* with a low or a full battery, and the clock advances by just over the   *)
(* flash time or by the flash period.                                      *)
(***************************************************************************)
FlashTickSteps == {FLASH_TIME + 1, FLASH_PERIOD}

FlashTick ==
    /\ w_pc \in {"start", "loop"}
    /\ nticks < MaxFlashTicks
    /\ nticks' = nticks + 1
    /\ \E d \in FlashTickSteps : now' = now + d
    /\ UNCHANGED <<w_pc, options, led_last_flash, led_flashing, ctl_sent, emitted,
                   recvd, stream, started_at, lastProc, flashed_at>>
    /\ UNCHANGED <<mainVars, codecVars>>

FlashReports ==
    /\ Reports(MaxFlashRecv)
    /\ Len(emitted') > Len(emitted)
    /\ emitted'[Len(emitted')].battery \in {1, 15}

FlashStart == WorkerStart /\ w_pc' = "loop"

InitFlash == InitWorker /\ options.led = <<0, 0, 255>>

NextFlash ==
    \/ FlashStart
    \/ FlashReports
    \/ FlashTick

SpecFlash == InitFlash /\ [][NextFlash]_vars

(***************************************************************************)
(* The main thread together with its workers.  Thread 1, started on the    *)
(* first device, is followed step by step through read_device; it ends     *)
(* when read_device has returned or raised.  The other threads end as in   *)
(* Spec.  The threads are daemon threads: none runs once the process has   *)
(* exited.                                                                 *)
(***************************************************************************)
PairStart == proc = "running" /\ 1 \in alive /\ WorkerStart

PairReports == proc = "running" /\ 1 \in alive /\ Reports(MaxPairRecv)

\* here the clock advances a flash period at a time
PairTick ==
    /\ proc = "running" /\ 1 \in alive
    /\ nticks < MaxPairTicks
    /\ Tick /\ now' = now + FLASH_PERIOD

\* read_device of thread 1 has returned or raised: is_alive() turns false
TrackedEnds == w_pc \in {"done", "error"} /\ ThreadEnds /\ 1 \notin alive'

OtherEnds == ThreadEnds /\ (1 \in alive => 1 \in alive')

\* here every scan finds a controller and the connection succeeds
PairFindDevicesCycle ==
    FindDevicesCycle /\ cycle' = "connected" /\ ndevices' <= MaxPairDevices

\* the first device runs with battery-flash enabled
InitPair == InitWorker /\ options = [battery_flash |-> TRUE, led |-> <<0, 0, 255>>]

NextPair ==
    \/ PairStart
    \/ PairReports
    \/ PairTick
    \/ TrackedEnds
    \/ OtherEnds
    \/ PairFindDevicesCycle
    \/ SweepStep
    \/ Assign

SpecPair == InitPair /\ [][NextPair]_vars

(***************************************************************************)
(* The conversions of a handle on their own: read_report on a buffer that  *)
(* recv_into has filled, control() on its arguments.                       *)
(***************************************************************************)
InitCodec ==
    /\ MainParked
    /\ WorkerParked
    /\ \/ /\ codec_pc = "read_report"
          /\ self_buf \in Buffers
          /\ ctl_args = NoArgs
       \/ /\ codec_pc = "control"
          /\ self_buf = ZeroBuf
          /\ ctl_args \in ControlArgs
    /\ decoded = [kind |-> "None"]
    /\ packet = <<>>

\* read_report after recv_into has filled the whole buffer
Decode ==
    /\ codec_pc = "read_report"
    /\ decoded' = [kind |-> "DS4Report", report |-> DS4Report(self_buf)]
    /\ codec_pc' = "done"
    /\ UNCHANGED <<self_buf, ctl_args, packet>>
    /\ UNCHANGED <<mainVars, workerVars>>

\* control(**ctl_args) up to the call of sendall
Encode ==
    /\ codec_pc = "control"
    /\ packet' = Packet(ctl_args)
    /\ codec_pc' = "done"
    /\ UNCHANGED <<self_buf, ctl_args, decoded>>
    /\ UNCHANGED <<mainVars, workerVars>>

NextCodec ==
    \/ Decode
    \/ Encode

SpecCodec == InitCodec /\ [][NextCodec]_vars

(***************************************************************************)
(*                              PROPERTIES                                 *)
(***************************************************************************)
QueuedJoypads == {joypads[i].joypad : i \in DOMAIN joypads}

\* the current device has been given its joypad
Assigned == ndevices > 0 /\ lastAssign.thread = ndevices

\* the sweep of the current step has ended, the assignment has not been made
SweepOver == proc = "running" /\ main_pc = "sweep" /\ it >= Len(threads)

\* C1: at every assignment step a default (dynamic) joypad is created only
\* if, when the step began, no configured (joypad, controller) pair was in
\* the joypads queue or held by a thread that had already terminated; in
\* every other case the device receives a configured pair.
C1_DynamicOnlyIfNoStaticAvailable ==
    (Assigned /\ lastAssign.dynamic) => availAtSweep = {}

\* C2: after the sweep, the thread list holds no thread that was already
\* terminated when the sweep began, and the pair of every such thread that
\* was not dynamic is in the joypads queue.
C2_SweepRemovesEveryDeadThread ==
    SweepOver =>
        \A t \in deadAtSweep :
            /\ \A i \in DOMAIN threads : threads[i] # t
            /\ ~thr[t].dynamic => thr[t].joypad \in QueuedJoypads

\* C3: a failed connect to a matching device yields no handle, keeps the
\* process running and leads to another scan.
C3_ConnectFailureKeepsScanning ==
    cycle = "connect_failed" => (proc = "running" /\ main_pc = "scan")

\* C4: find_devices ends only through a provider failure (hcitool missing or
\* exiting non-zero), which exits the process with status 1 and yields
\* nothing; every other cycle outcome leads to another scan.
C4_EndsOnlyByProviderFailure ==
    /\ cycle \in {"provider_missing", "provider_error"} => proc = "exit1"
    /\ cycle \in {"empty_scan", "no_match", "connected", "connect_failed"}
            => proc = "running"

\* C10: a joypad created for a dynamic assignment is handed to exactly one
\* thread ever and is never put in the joypads queue.
C10_DynamicJoypadBoundOnce ==
    /\ \A j \in DOMAIN everBound :
            j > ncontrollers => Cardinality(everBound[j]) = 1
    /\ \A j \in QueuedJoypads : j <= ncontrollers

\* a dynamic thread has terminated and been swept out of the list, and a
\* later device has been assigned since
C10_Witness ==
    /\ main_pc = "scan"
    /\ \E t \in DOMAIN thr :
        /\ thr[t].dynamic
        /\ t \notin alive
        /\ \A i \in DOMAIN threads : threads[i] # t
        /\ lastAssign.thread > t

(***************************************************************************)
(* Properties of one worker.                                               *)
(***************************************************************************)
\* the receives that carried a full report
FullReceives == SelectSeq(recvd, LAMBDA e : e.ret = 79)

\* battery and charging as the wire format packs them in byte 33
Expected(e) == [battery |-> e.b33 % 16, charging |-> (e.b33 \div 16) % 2 = 1]

IsPrefix(a, b) == Len(a) <= Len(b) /\ \A i \in 1..Len(a) : a[i] = b[i]

\* control() calls made by read_device (the first call on the device is
\* the white of DS4Device.__init__)
WorkerSent == Tail(ctl_sent)

Colour == [big_rumble |-> 0, small_rumble |-> 0,
           led_red |-> options.led[1], led_green |-> options.led[2],
           led_blue |-> options.led[3], flash_led1 |-> 0, flash_led2 |-> 0]

Flashes(cmd) == cmd.flash_led1 # 0 \/ cmd.flash_led2 # 0

AllOff == [big_rumble |-> 0, small_rumble |-> 0, led_red |-> 0, led_green |-> 0,
           led_blue |-> 0, flash_led1 |-> 0, flash_led2 |-> 0]

Low(report) == report.battery < 2 /\ ~report.charging

\* the latest report was processed to the end (no control() call raised)
Processed == lastProc.valid /\ ~lastProc.raised

\* C5: the report stream yields exactly one report per 79-byte receive, in
\* receive order, nothing for a receive of 1..78 bytes, and ends at the
\* first zero-length receive, after which nothing more is received; only a
\* zero-length receive ends it.
C5_StreamYieldsFullReportsOnly ==
    /\ Len(stream) = Len(FullReceives)
    /\ \A i \in 1..Len(stream) : stream[i] = Expected(FullReceives[i])
    /\ \A i \in 1..Len(recvd) :
            recvd[i].ret = 0 => (i = Len(recvd) /\ w_pc = "done")
    /\ w_pc = "done" => (recvd # <<>> /\ recvd[Len(recvd)].ret = 0)

\* a stream with a full report, a short one and the end of stream
C5_Witness ==
    /\ w_pc = "done"
    /\ \E i, j \in 1..Len(recvd) :
        /\ i < j
        /\ recvd[i].ret \in 1..78
        /\ recvd[j].ret = 79
    /\ Len(stream) >= 1

\* C6 as claimed: with battery-flash enabled the session starts in steady,
\* and a report with battery < 2 and charging false processed when no flash
\* has yet occurred sends a flash-enabled command and moves the policy from
\* steady to flashing.
C6_FirstLowReportFlashes ==
    (/\ options.battery_flash
     /\ Processed
     /\ Low(lastProc.report)
     /\ \A i \in 1..(Len(WorkerSent) - Len(lastProc.cmds)) : ~Flashes(WorkerSent[i]))
        => /\ \E i \in 1..Len(lastProc.cmds) : Flashes(lastProc.cmds[i])
           /\ ~lastProc.flashing
           /\ led_flashing

\* C6 amended: with battery-flash enabled the session starts with the
\* flashing flag set and the flash start set to the session start; a report
\* with battery < 2 and charging false processed while the policy is steady
\* and more than 60 seconds after the last flash start (the session start
\* when no flash has occurred) sends one flash-enabled command and moves the
\* policy to flashing; while the flag is set such a report sends none.
C6_LowReportFlashesWhenSteadyAndDue ==
    options.battery_flash =>
        /\ (w_pc = "loop" /\ stream = <<>>)
                => (led_flashing /\ led_last_flash = started_at /\ WorkerSent = <<Colour>>)
        /\ (Processed /\ Low(lastProc.report) /\ ~lastProc.flashing
                /\ lastProc.t - lastProc.last > 60)
                => /\ lastProc.cmds = <<[Colour EXCEPT !.flash_led1 = 30, !.flash_led2 = 30]>>
                   /\ led_flashing
                   /\ led_last_flash = lastProc.t
        /\ (Processed /\ Low(lastProc.report) /\ lastProc.flashing)
                => \A i \in 1..Len(lastProc.cmds) : ~Flashes(lastProc.cmds[i])

\* a steady policy, a low battery, more than 60 seconds since the session
\* start: the flash has started
C6_Witness ==
    /\ options.battery_flash
    /\ Processed
    /\ Low(lastProc.report)
    /\ ~lastProc.flashing
    /\ lastProc.t - lastProc.last > 60
    /\ led_flashing

\* C7 as claimed: in flashing, a report processed at least 5 seconds
\* (exactly 5 included) after the flash start sends the flash-disabled
\* command and then the profile colour and leaves the policy steady; one
\* processed earlier sends neither.
C7_FlashEndsAtFiveSeconds ==
    (options.battery_flash /\ Processed /\ lastProc.flashing) =>
        /\ lastProc.t - lastProc.last >= 5
                => (lastProc.cmds = <<AllOff, Colour>> /\ ~led_flashing)
        /\ lastProc.t - lastProc.last < 5
                => (lastProc.cmds = <<>> /\ led_flashing)

\* C7 amended: in flashing, a report processed more than 5 seconds after
\* the flash start sends the flash-disabled command and then the profile
\* colour and leaves the policy steady; one processed 5 seconds or less
\* after the flash start sends neither and leaves the policy flashing.
C7_FlashEndsAfterFiveSeconds ==
    (options.battery_flash /\ Processed /\ lastProc.flashing) =>
        /\ lastProc.t - lastProc.last > 5
                => (lastProc.cmds = <<AllOff, Colour>> /\ ~led_flashing)
        /\ lastProc.t - lastProc.last <= 5
                => (lastProc.cmds = <<>> /\ led_flashing)

\* a flashing policy older than 5 seconds has been ended by a report
C7_Witness ==
    /\ options.battery_flash
    /\ Processed
    /\ lastProc.flashing
    /\ lastProc.t - lastProc.last > 5
    /\ lastProc.cmds = <<AllOff, Colour>>
    /\ ~led_flashing

\* C8: the worker emits the decoded reports of its stream once each, in
\* receive order, and after the end of stream has emitted all of them and
\* nothing more; for the stream <battery 15, charging>, end of stream it
\* emits one report and sends no command with a non-zero flash duration,
\* with battery-flash on or off.
C8_EmitsStreamInOrder ==
    /\ IsPrefix(emitted, [i \in 1..Len(FullReceives) |-> Expected(FullReceives[i])])
    /\ w_pc \in {"loop", "done"} => Len(emitted) = Len(FullReceives)
    /\ w_pc = "error" => Len(emitted) >= Len(FullReceives) - 1
    /\ (w_pc = "done" /\ recvd = <<[ret |-> 79, b33 |-> 31], [ret |-> 0, b33 |-> 0]>>)
            => /\ emitted = <<[battery |-> 15, charging |-> TRUE]>>
               /\ \A i \in 1..Len(WorkerSent) : ~Flashes(WorkerSent[i])

\* that stream, its report processed more than 60 seconds into a session
\* with battery-flash enabled
C8_Witness ==
    /\ w_pc = "done"
    /\ options.battery_flash
    /\ recvd = <<[ret |-> 79, b33 |-> 31], [ret |-> 0, b33 |-> 0]>>
    /\ lastProc.t - started_at > 60
    /\ Len(emitted) = 1

\* C9: with battery-flash disabled the worker makes exactly one control()
\* call in its session, the profile colour at its start, whatever its
\* reports carry and whatever the clock says.
C9_NoFlashOptionOneCommand ==
    ~options.battery_flash =>
        /\ w_pc = "start" => WorkerSent = <<>>
        /\ w_pc # "start" => WorkerSent = <<Colour>>

\* battery-flash disabled, a low battery reported 60 seconds into the session
C9_Witness ==
    /\ ~options.battery_flash
    /\ Processed
    /\ Low(lastProc.report)
    /\ lastProc.t - started_at > 60
    /\ Len(emitted) >= 1

\* no thread created so far has terminated
NoneTerminated == DOMAIN thr \subseteq alive

\* C11: while no worker has terminated, the k-th device yielded, k up to the
\* number of configured controllers, runs with the k-th configured
\* controller and the k-th joypad created at startup, as a static
\* assignment; and a device assigned while the joypads queue is empty gets
\* a joypad created for it alone and the default controller, as a dynamic
\* assignment.
C11_ConfiguredInOrderThenDefault ==
    /\ NoneTerminated =>
            \A t \in DOMAIN thr :
                t <= ncontrollers =>
                    thr[t] = [dynamic |-> FALSE, joypad |-> t, options |-> t]
    /\ (Assigned /\ lastAssign.pending = 0) =>
            /\ thr[ndevices] = [dynamic |-> TRUE, joypad |-> njoypads, options |-> 0]
            /\ njoypads > ncontrollers
            /\ everBound[njoypads] = {ndevices}

\* two configured controllers, three devices assigned, no worker terminated
C11_Witness ==
    /\ ncontrollers = 2
    /\ ndevices = 3
    /\ Assigned
    /\ lastAssign.pending = 0
    /\ NoneTerminated

\* C12: the handle of a worker that has terminated has both its channels
\* closed.
C12_TerminatedWorkerChannelsClosed ==
    \A t \in DOMAIN thr : t \notin alive => t \notin sockets

\* some thread has terminated
SomeTerminated == \E t \in DOMAIN thr : t \notin alive

\* C13: the step in which a worker terminates (read_device returned on the
\* end of the stream or raised on a transport error) changes nothing of any
\* other worker - whether it runs, its handle's sockets, its controller
\* options, its joypad, and, for the worker followed in detail, its LED
\* locals and what it has sent and emitted - and nothing of the main
\* thread; and once a worker has terminated the process still runs, a
\* running worker can still take its next report and find_devices can
\* still yield a device.
C13_WorkerEndIsLocal ==
    /\ [][\A t \in alive :
            t \notin alive' =>
                /\ \A u \in DOMAIN thr \ {t} :
                        /\ (u \in alive') = (u \in alive)
                        /\ (u \in sockets') = (u \in sockets)
                        /\ thr'[u] = thr[u]
                /\ t # 1 => UNCHANGED <<w_pc, options, led_last_flash, led_flashing,
                                        ctl_sent, emitted>>
                /\ UNCHANGED <<proc, main_pc, joypads, threads, it, ndevices>>]_vars
    /\ [](SomeTerminated =>
            /\ proc = "running"
            /\ (1 \in alive /\ w_pc = "loop" /\ Len(recvd) < MaxPairRecv)
                    => ENABLED PairReports
            /\ (main_pc = "scan" /\ ndevices < MaxPairDevices)
                    => ENABLED PairFindDevicesCycle)

\* thread 1 has ended on a transport error while thread 2 runs, and a
\* device found afterwards runs with the joypad reclaimed from thread 1
C13_Witness ==
    /\ w_pc = "error"
    /\ 1 \notin alive
    /\ 2 \in alive
    /\ ndevices = 3
    /\ Assigned
    /\ thr[3].joypad = thr[1].joypad

\* read_report has decoded the buffer
Decoded == decoded.kind = "DS4Report"

\* C14: the four directional flags of a decoded report depend only on the
\* low four bits of the byte that carries the hat switch: 0..7 give up,
\* up+right, right, down+right, down, down+left, left, up+left, every other
\* value gives no direction, whatever the face-button bits of the upper
\* half of that byte.
C14_DpadFromLowNibble ==
    Decoded =>
        LET hat == self_buf[8] % 16
            r == decoded.report
        IN /\ r.dpad_up = (hat \in {7, 0, 1})
           /\ r.dpad_right = (hat \in {1, 2, 3})
           /\ r.dpad_down = (hat \in {3, 4, 5})
           /\ r.dpad_left = (hat \in {5, 6, 7})

S16Range == -32768..32767

\* C16 as stated: in every decoded report the three motion and the three
\* orientation values are in -32768..32767, the timestamp in 0..15, the
\* battery level in 0..15, the touch ids in 0..127 and the touch
\* coordinates in 0..4095.
C16_FieldsInDeclaredRanges ==
    Decoded =>
        LET r == decoded.report
        IN /\ {r.motion_x, r.motion_y, r.motion_z} \subseteq S16Range
           /\ {r.orientation_roll, r.orientation_yaw, r.orientation_pitch}
                    \subseteq S16Range
           /\ r.timestamp \in 0..15
           /\ r.battery \in 0..15
           /\ {r.trackpad_touch0_id, r.trackpad_touch1_id} \subseteq 0..127
           /\ {r.trackpad_touch0_x, r.trackpad_touch0_y,
               r.trackpad_touch1_x, r.trackpad_touch1_y} \subseteq 0..4095

\* C16: in every decoded report the three motion values and the yaw and
\* pitch are in -32768..32767, the roll (the negated wire value) is in
\* -32767..32768, the timestamp is in 0..63, the battery level in 0..15,
\* the touch ids in 0..127 and the touch coordinates in 0..4095.
C16_FieldsInDecodedRanges ==
    Decoded =>
        LET r == decoded.report
        IN /\ {r.motion_x, r.motion_y, r.motion_z} \subseteq S16Range
           /\ {r.orientation_yaw, r.orientation_pitch} \subseteq S16Range
           /\ r.orientation_roll \in -32767..32768
           /\ r.timestamp \in 0..63
           /\ r.battery \in 0..15
           /\ {r.trackpad_touch0_id, r.trackpad_touch1_id} \subseteq 0..127
           /\ {r.trackpad_touch0_x, r.trackpad_touch0_y,
               r.trackpad_touch1_x, r.trackpad_touch1_y} \subseteq 0..4095

\* the wire value -32768 on the negated axis has been decoded
C16_Witness ==
    /\ Decoded
    /\ self_buf[22] = 0 /\ self_buf[23] = 128
    /\ decoded.report.orientation_roll = 32768

\* control() has built its packet
Encoded == codec_pc = "done" /\ packet # <<>>

\* C17: control() hands sendall one packet of 79 bytes: the byte 0x52
\* (SET_REPORT | OUTPUT), then 78 bytes with 0x11 at offset 0, 0x80 at
\* offset 1, 0xFF at offset 3, big and small rumble at offsets 6 and 7, LED
\* red, green, blue at offsets 8, 9, 10, flash on and off at offsets 11 and
\* 12, and zero at every other offset; with all arguments zero only
\* offsets 0, 1 and 3 are not zero.
C17_ControlPacketLayout ==
    Encoded =>
        LET pkt == [i \in 0..77 |-> packet[i + 2]]
            a == ctl_args
        IN /\ Len(packet) = 79
           /\ packet[1] = 82
           /\ pkt[0] = 17 /\ pkt[1] = 128 /\ pkt[3] = 255
           /\ pkt[6] = a.big_rumble /\ pkt[7] = a.small_rumble
           /\ pkt[8] = a.led_red /\ pkt[9] = a.led_green /\ pkt[10] = a.led_blue
           /\ pkt[11] = a.flash_led1 /\ pkt[12] = a.flash_led2
           /\ \A i \in (0..77) \ {0, 1, 3, 6, 7, 8, 9, 10, 11, 12} : pkt[i] = 0
           /\ a = NoArgs => {i \in 0..77 : pkt[i] # 0} = {0, 1, 3}

\* a packet built from arguments that differ between neighbouring offsets
C17_Witness ==
    /\ Encoded
    /\ ctl_args.big_rumble = 255 /\ ctl_args.small_rumble = 30
    /\ ctl_args.led_red = 30 /\ ctl_args.led_green = 255 /\ ctl_args.led_blue = 30
    /\ ctl_args.flash_led1 = 255 /\ ctl_args.flash_led2 = 30

\* C15: on every handle the first control() call is the white command
\* (255, 255, 255, no flash), made by the constructor before main has the
\* handle and so before the worker thread exists; the worker's first call
\* is the profile colour, the second on the handle, made before the worker
\* receives anything; until then white is the only command sent.
C15_WhiteThenProfileColour ==
    /\ Len(ctl_sent) >= 1
    /\ ctl_sent[1] = [big_rumble |-> 0, small_rumble |-> 0,
                      led_red |-> 255, led_green |-> 255, led_blue |-> 255,
                      flash_led1 |-> 0, flash_led2 |-> 0]
    /\ w_pc = "start" => (Len(ctl_sent) = 1 /\ recvd = <<>>)
    /\ w_pc # "start" => (Len(ctl_sent) >= 2 /\ ctl_sent[2] = Colour)

\* a session that went on to receive reports and to send further commands
C15_Witness ==
    /\ w_pc = "loop"
    /\ Len(recvd) >= 2
    /\ Len(ctl_sent) > 2
    /\ ctl_sent[3] # Colour

\* positions in the worker's commands of the flash-enabled ones
FlashCommands == {i \in DOMAIN WorkerSent : Flashes(WorkerSent[i])}

\* C18: the worker sends a flash-enabled command only while it processes a
\* report with battery below 2 and not charging, with battery-flash enabled
\* in its profile, with the LED policy steady (any earlier flash-enabled
\* command has been answered by a flash-disabled one), and at least 60
\* seconds after its previous flash-enabled command; so two flash-enabled
\* commands of a session are never less than 60 seconds apart and none is
\* sent while the LED is flashing.
C18_FlashOnlyWhenLowSteadyAndDue ==
    /\ Cardinality(FlashCommands) = Len(flashed_at)
    /\ (lastProc.valid /\ \E i \in DOMAIN lastProc.cmds : Flashes(lastProc.cmds[i])) =>
            /\ options.battery_flash
            /\ Low(lastProc.report)
            /\ ~lastProc.flashing
            /\ Len(flashed_at) >= 2 =>
                    lastProc.t - flashed_at[Len(flashed_at) - 1] >= 60
    /\ \A i \in 1..(Len(flashed_at) - 1) : flashed_at[i + 1] - flashed_at[i] >= 60
    /\ \A i, j \in FlashCommands :
            i < j => \E k \in (i + 1)..(j - 1) : WorkerSent[k] = AllOff

\* a session in which the LED was made to flash twice
C18_Witness ==
    /\ Len(flashed_at) = 2
    /\ Cardinality(FlashCommands) = 2
    /\ led_flashing

\* the flash-disabled command at position i of the worker's commands
\* answers a flash-enabled command sent before it
AnswersFlash(i) ==
    \E j \in FlashCommands :
        /\ j < i
        /\ \A k \in (j + 1)..(i - 1) : WorkerSent[k] # AllOff

\* no report yielded so far had a low battery while not charging
NoLowReport == \A i \in DOMAIN stream : ~Low(stream[i])

\* C19 as stated: the worker sends the flash-disabled command (followed by
\* the profile colour) only in answer to a flash-enabled command sent
\* earlier in the session and not yet answered; so with battery-flash
\* enabled and no low battery reported the worker sends nothing after its
\* initial profile colour.
C19_SteadyOnlyAfterFlash ==
    /\ \A i \in DOMAIN WorkerSent : WorkerSent[i] = AllOff => AnswersFlash(i)
    /\ (options.battery_flash /\ NoLowReport) => Len(WorkerSent) <= 1

\* C19: the worker sends the flash-disabled command (followed by the
\* profile colour) only in answer to a flash-enabled command sent earlier
\* and not yet answered, or as its first command after the initial profile
\* colour (the session starts as if a flash had begun with it); so with
\* battery-flash enabled and no low battery reported the worker sends,
\* after its initial profile colour, at most that one flash-disabled
\* command and profile colour, and never a flash-enabled command.
C19_SteadyAfterFlashOrSessionStart ==
    /\ \A i \in DOMAIN WorkerSent :
            WorkerSent[i] = AllOff => (AnswersFlash(i) \/ i = 2)
    /\ (options.battery_flash /\ NoLowReport) =>
            IsPrefix(WorkerSent, <<Colour, AllOff, Colour>>)

\* the flash that ended the session's initial one has itself been ended
C19_Witness ==
    /\ Len(WorkerSent) >= 6
    /\ WorkerSent[2] = AllOff
    /\ Flashes(WorkerSent[4])
    /\ WorkerSent[5] = AllOff
    /\ ~led_flashing

\* thread t has terminated and is still in main's list
TerminatedInList(t) == t \in Range(threads) /\ t \notin alive

\* the index of thread t in main's list
Position(t) == CHOOSE i \in DOMAIN threads : threads[i] = t

\* thread t is out of main's list and, if it was not dynamic, its joypad
\* is in the joypads queue or runs with a later thread
Swept(t) ==
    /\ t \in DOMAIN thr
    /\ t \notin Range(threads)
    /\ ~thr[t].dynamic =>
            \/ thr[t].joypad \in QueuedJoypads
            \/ \E u \in DOMAIN thr : u > t /\ thr[u].joypad = thr[t].joypad

\* C20: while find_devices goes on yielding devices
\* (here: as many more as the thread has places in the list), a thread that
\* has terminated is eventually out of main's thread list, and if it was
\* not dynamic its (joypad, controller) pair is then in the joypads queue
\* or assigned to a later device, whatever other threads terminate.
C20_TerminatedEventuallySwept ==
    \A t \in 1..MaxLiveDevices :
        (TerminatedInList(t) /\ ndevices + Position(t) <= MaxLiveDevices)
            ~> Swept(t)

\* threads 1 and 2 have terminated and been swept out of the list, and
\* their joypads run with later threads
C20_Witness ==
    /\ ndevices >= 4
    /\ Assigned
    /\ 2 \in deadAtSweep
    /\ 2 \notin Range(threads)
    /\ ~thr[2].dynamic
    /\ thr[ndevices].joypad = thr[2].joypad
    /\ Cardinality(everBound[thr[1].joypad]) >= 2

\* main is between two runs of the body of its for loop
BetweenSteps == main_pc = "scan"

\* places of the joypads queue that hold joypad j
QueuePlaces(j) == {i \in DOMAIN joypads : joypads[i].joypad = j}

\* places of the thread list whose thread runs with joypad j
ListPlaces(j) == {i \in DOMAIN threads : thr[threads[i]].joypad = j}

\* C21: between two steps of main's loop every configured (joypad,
\* controller) pair is in exactly one place - once in the joypads queue, or
\* with exactly one thread of the thread list, as a static assignment with
\* its own controller - so the configured pairs stay as many as at
\* startup; no joypad, configured or created later, is with two threads of
\* the list, and none is in the queue while a running thread has it.
C21_EachPairInOnePlace ==
    BetweenSteps =>
        /\ \A k \in 1..ncontrollers :
                /\ Cardinality(QueuePlaces(k)) + Cardinality(ListPlaces(k)) = 1
                /\ \A i \in QueuePlaces(k) : joypads[i].options = k
                /\ \A i \in ListPlaces(k) :
                        thr[threads[i]] = [dynamic |-> FALSE, joypad |-> k, options |-> k]
        /\ Len(joypads) + Cardinality({i \in DOMAIN threads : ~thr[threads[i]].dynamic})
                = ncontrollers
        /\ \A j \in 1..njoypads : Cardinality(ListPlaces(j)) <= 1
        /\ \A j \in QueuedJoypads : \A t \in alive : thr[t].joypad # j

\* between two steps: a pair that has run with a thread is back in the
\* queue, a terminated thread is still in the list with its joypad, and a
\* joypad created later runs with a thread
C21_Witness ==
    /\ BetweenSteps
    /\ Assigned
    /\ \E k \in QueuedJoypads : k \in DOMAIN everBound /\ everBound[k] # {}
    /\ \E t \in Range(threads) : t \notin alive
    /\ \E t \in Range(threads) : t \in alive /\ thr[t].dynamic
====
